---- MODULE Spec2Model ----
(***************************************************************************)
(* A model of src/main/transmitter.py: the NeuralTransmitter object, its   *)
(* policy parameters, its single-slot trajectory cache (input_accum,       *)
(* actions_re_accum, actions_im_accum) and its public methods.             *)
(*                                                                         *)
(* Numbers.  Symbol values (means, samples, weights) are fixed-point       *)
(* integers, FixedOne units to 1.0.  Bits are the integers -1 and +1.      *)
(* Losses are integers in units of 1/LossOne, which makes                  *)
(* L1 + lambda_p*(re^2+im^2) exact.  A numpy array is a record             *)
(* [shape, data] with the data flat in row-major order, so that the shapes *)
(* the code produces (a 0-d array for a batch of one, broadcasting of      *)
(* unequal batches) are part of the model.                                 *)
(***************************************************************************)
EXTENDS Integers, Sequences, FiniteSets, TLC

VARIABLES
    restrict_energy,    \* self.restrict_energy, fixed at construction
    params,             \* the trainable variables of the graph
    opt_steps,          \* optimizer steps applied so far (Adam's step state)
    input_accum,        \* self.input_accum, Absent until first saved
    actions_re_accum,   \* self.actions_re_accum
    actions_im_accum,   \* self.actions_im_accum
    ret,                \* outcome of the most recent call, as the caller sees it
    saved,              \* history: argument and result of the last saved transmit
    thr                 \* the two callers of the unsynchronised scenario

vars == <<restrict_energy, params, opt_steps, input_accum, actions_re_accum,
          actions_im_accum, ret, saved, thr>>

-----------------------------------------------------------------------------
(* Configuration and bounds *)

NBits == 2
LambdaNum == 1
LambdaDen == 10
InitialLogstd == -2

FixedOne == 1000
MaxBatch == 3
MaxUpdates == 2
MaxTransmits == 2

LossOne == LambdaDen * FixedOne * FixedOne
HiddenBiasInit == (2 * FixedOne) \div 10
NoiseStep == FixedOne \div 2
StepSizes == {0, 1}

-----------------------------------------------------------------------------
(* Arithmetic helpers *)

Abs(x) == IF x < 0 THEN -x ELSE x
Max(a, b) == IF a >= b THEN a ELSE b
Relu(x) == IF x > 0 THEN x ELSE 0

\* division rounded to nearest, as floating point rounds
RoundDiv(a, b) == (2 * a + b) \div (2 * b)

RECURSIVE SqrtSearch(_, _, _)
SqrtSearch(m, lo, hi) ==
    IF lo >= hi THEN lo
    ELSE LET mid == (lo + hi + 1) \div 2
         IN IF mid * mid <= m THEN SqrtSearch(m, mid, hi)
            ELSE SqrtSearch(m, lo, mid - 1)

\* square root rounded to nearest
Sqrt(m) ==
    LET r == SqrtSearch(m, 0, 40000)
    IN IF m - r * r <= r THEN r ELSE r + 1

RECURSIVE SumSeq(_)
SumSeq(s) == IF Len(s) = 0 THEN 0 ELSE Head(s) + SumSeq(Tail(s))

RECURSIVE MaxSeq(_)
MaxSeq(s) == IF Len(s) = 1 THEN s[1] ELSE Max(Head(s), MaxSeq(Tail(s)))

RECURSIVE Pow2(_)
Pow2(n) == IF n = 0 THEN 1 ELSE 2 * Pow2(n - 1)

-----------------------------------------------------------------------------
(* numpy arrays *)

Arr(sh, d) == [shape |-> sh, data |-> d]
Absent == Arr(<<>>, <<>>)          \* an attribute that was never assigned
NoneVal == Arr(<<0>>, <<>>)        \* a call that returns nothing

Rank(a) == Len(a.shape)
BatchLen(a) == a.shape[1]

Pad2(s) == IF Len(s) = 2 THEN s
           ELSE IF Len(s) = 1 THEN <<1, s[1]>>
           ELSE <<1, 1>>

DimOK(a, b) == a = b \/ a = 1 \/ b = 1
BroadcastDim(a, b) == IF a = 1 THEN b ELSE a

CanBroadcast(s1, s2) ==
    LET p == Pad2(s1)
        q == Pad2(s2)
    IN DimOK(p[1], q[1]) /\ DimOK(p[2], q[2])

BShape2(s1, s2) ==
    LET p == Pad2(s1)
        q == Pad2(s2)
    IN <<BroadcastDim(p[1], q[1]), BroadcastDim(p[2], q[2])>>

ResultShape(s1, s2) ==
    LET r == Max(Len(s1), Len(s2))
        b == BShape2(s1, s2)
    IN IF r = 2 THEN b ELSE IF r = 1 THEN <<b[2]>> ELSE <<>>

\* element (i, j) of a seen through broadcasting
At2(a, i, j) ==
    LET p == Pad2(a.shape)
        ii == IF p[1] = 1 THEN 1 ELSE i
        jj == IF p[2] = 1 THEN 1 ELSE j
    IN a.data[(ii - 1) * p[2] + jj]

\* a - b and a + b, elementwise with broadcasting
NpSub(a, b) ==
    LET p == BShape2(a.shape, b.shape)
    IN Arr(ResultShape(a.shape, b.shape),
           [k \in 1..(p[1] * p[2]) |->
               At2(a, ((k - 1) \div p[2]) + 1, ((k - 1) % p[2]) + 1)
                 - At2(b, ((k - 1) \div p[2]) + 1, ((k - 1) % p[2]) + 1)])

NpAdd(a, b) ==
    LET p == BShape2(a.shape, b.shape)
    IN Arr(ResultShape(a.shape, b.shape),
           [k \in 1..(p[1] * p[2]) |->
               At2(a, ((k - 1) \div p[2]) + 1, ((k - 1) % p[2]) + 1)
                 + At2(b, ((k - 1) \div p[2]) + 1, ((k - 1) % p[2]) + 1)])

Square(x) == x * x
NpSquare(a) == Arr(a.shape, [k \in 1..Len(a.data) |-> Square(a.data[k])])
NpScale(c, a) == Arr(a.shape, [k \in 1..Len(a.data) |-> c * a.data[k]])
NegDropped(x) == x
Neg(x) == -x
NpNeg(a) == Arr(a.shape, [k \in 1..Len(a.data) |-> Neg(a.data[k])])

NormSignedAxis1(x) ==
    Arr(<<x.shape[1]>>,
        [i \in 1..x.shape[1] |->
            SumSeq([j \in 1..x.shape[2] |-> x.data[(i - 1) * x.shape[2] + j]])])

\* np.linalg.norm(x, ord=1, axis=1) of a rank-2 array
NormL1Axis1(x) ==
    Arr(<<x.shape[1]>>,
        [i \in 1..x.shape[1] |->
            SumSeq([j \in 1..x.shape[2] |-> Abs(x.data[(i - 1) * x.shape[2] + j])])])

\* np.squeeze / tf.squeeze: drop every axis of length one
Squeeze(a) == Arr(SelectSeq(a.shape, LAMBDA d : d # 1), a.data)

\* np.array([a, b]).T for two arrays of one shape, of rank 0 or 1
StackT(a, b) ==
    IF Rank(a) = 0 THEN Arr(<<2>>, <<a.data[1], b.data[1]>>)
    ELSE Arr(<<a.shape[1], 2>>,
             [k \in 1..(2 * a.shape[1]) |->
                 IF k % 2 = 1 THEN a.data[(k + 1) \div 2] ELSE b.data[k \div 2]])

Row(a, i) == [j \in 1..a.shape[2] |-> a.data[(i - 1) * a.shape[2] + j]]

-----------------------------------------------------------------------------
(* Placeholders and the feed check of Session.run *)

NoneDim == 0 - 1
PhInput == <<NoneDim, NBits>>      \* self.input
PhActions == <<NoneDim>>           \* self.actions_re, self.actions_im
PhAdv == <<NoneDim>>               \* self.adv

\* Session.run refuses a feed whose shape is incompatible with the placeholder
FeedOK(ph, a) ==
    /\ Len(ph) = Len(a.shape)
    /\ \A k \in 1..Len(ph) : ph[k] = NoneDim \/ ph[k] = a.shape[k]

-----------------------------------------------------------------------------
(* The network: hidden layers, the two output heads, the normaliser *)

Layer(W, b) == [W |-> W, b |-> b]

Dot(w, x) == SumSeq([k \in 1..Len(w) |-> w[k] * x[k]])

\* one fully connected layer applied to one sample; relu tells the activation
FullyConnected(layer, x, relu) ==
    [k \in 1..Len(layer.b) |->
        IF relu THEN Relu(RoundDiv(Dot(layer.W[k], x), FixedOne) + layer.b[k])
        ELSE RoundDiv(Dot(layer.W[k], x), FixedOne) + layer.b[k]]

RECURSIVE HiddenLayers(_, _)
HiddenLayers(layers, x) ==
    IF Len(layers) = 0 THEN x
    ELSE HiddenLayers(Tail(layers), FullyConnected(Head(layers), x, TRUE))

\* one output head on a batch: a (B, 1) tensor, squeezed
HeadMean(p, head, signal_b) ==
    Squeeze(Arr(<<signal_b.shape[1], 1>>,
        [i \in 1..signal_b.shape[1] |->
            FullyConnected(head,
                HiddenLayers(p.hidden,
                    [j \in 1..signal_b.shape[2] |-> Row(signal_b, i)[j] * FixedOne]),
                FALSE)[1]]))

\* sqrt(reduce_max(re^2 + im^2)) over the batch
MaxAmplitude(re, im) ==
    Sqrt(MaxSeq([k \in 1..Len(re.data) |-> Square(re.data[k]) + Square(im.data[k])]))

NormalizationUnit(re, im) == FixedOne

\* relu(max_amplitude - 1) + 1
Normalization(re, im) == Relu(MaxAmplitude(re, im) - FixedOne) + FixedOne

DivideBy(a, d) == Arr(a.shape, [k \in 1..Len(a.data) |-> RoundDiv(a.data[k] * FixedOne, d)])

\* re_mean and im_mean as the distributions see them
Means(p, restrict, signal_b) ==
    LET re == HeadMean(p, p.re_head, signal_b)
        im == HeadMean(p, p.im_head, signal_b)
    IN IF restrict
       THEN [re |-> DivideBy(re, Normalization(re, im)),
             im |-> DivideBy(im, Normalization(re, im))]
       ELSE [re |-> re, im |-> im]

\* a draw from Normal(mean, std): the mean plus a deviation per element
Sample(mean, noise) == Arr(mean.shape, [k \in 1..Len(mean.data) |-> mean.data[k] + noise[k]])

Net(w, bh, vre, cre, vim, cim, lre, lim) ==
    [hidden |-> <<Layer(<<w>>, <<bh>>)>>,
     re_head |-> Layer(<<<<vre>>>>, <<cre>>),
     im_head |-> Layer(<<<<vim>>>>, <<cim>>),
     re_logstd |-> lre,
     im_logstd |-> lim]

\* parameter values the model ranges over: two fresh initialisations (the
\* largest raw amplitude of the first exceeds 1, that of the second does
\* not) and a trained value
ParamSpace ==
    { Net(<<FixedOne \div 2, FixedOne \div 2>>, HiddenBiasInit, FixedOne, 0,
          FixedOne \div 2, 0, InitialLogstd, InitialLogstd),
      Net(<<(3 * FixedOne) \div 10, -((3 * FixedOne) \div 10)>>, HiddenBiasInit,
          FixedOne \div 2, 0, -(FixedOne \div 2), 0, InitialLogstd, InitialLogstd),
      Net(<<(3 * FixedOne) \div 10, -((3 * FixedOne) \div 10)>>, FixedOne \div 10,
          2 * FixedOne, FixedOne \div 10, -(FixedOne \div 2), 0,
          InitialLogstd - 1, InitialLogstd + 1) }

\* what construction leaves: hidden biases 0.2, head biases 0, both log-stds
\* at initial_logstd, weights drawn at random
InitParams ==
    { p \in ParamSpace :
        /\ \A i \in 1..Len(p.hidden) : \A k \in 1..Len(p.hidden[i].b) :
               p.hidden[i].b[k] = HiddenBiasInit
        /\ p.re_head.b = <<0>> /\ p.im_head.b = <<0>>
        /\ p.re_logstd = InitialLogstd /\ p.im_logstd = InitialLogstd }

\* one run of update_op: the trainable variables after the step
GradStep(p, stepsize, p2) == IF stepsize = 0 THEN p ELSE p2
AdamStepTwice(n) == n + 2
AdamStep(n) == n + 1

-----------------------------------------------------------------------------
(* Inputs the model ranges over *)

\* itertools.product([-1, 1], repeat=n_bits), numbered from 0
Bitstring(k) ==
    [j \in 1..NBits |-> IF (k \div Pow2(NBits - j)) % 2 = 1 THEN 1 ELSE -1]

\* B consecutive bitstrings starting at number o, as a (B, n_bits) batch
Window(o, B) ==
    Arr(<<B, NBits>>,
        [k \in 1..(B * NBits) |->
            Bitstring((o + ((k - 1) \div NBits)) % Pow2(NBits))[((k - 1) % NBits) + 1]])

Unbatched(k) == Arr(<<NBits>>, Bitstring(k))

Offsets == {0, 1}
Batches == { Window(o, B) : o \in Offsets, B \in 1..MaxBatch }
TransmitInputs == Batches \cup {Unbatched(0)}
Guesses == Batches \cup {Unbatched(1)}
\* deviations of the draws from their means, real and imaginary, per element:
\* none at all, or NoiseStep on alternating elements
Noises(B) ==
    { [re |-> [i \in 1..B |-> 0], im |-> [i \in 1..B |-> 0]],
      [re |-> [i \in 1..B |-> IF i % 2 = 1 THEN NoiseStep ELSE 0],
       im |-> [i \in 1..B |-> IF i % 2 = 1 THEN 0 ELSE -NoiseStep]] }

\* the forward pass on every batch the model feeds, evaluated once
ForwardBatches == Batches \cup {Window(0, Pow2(NBits))}
MeanTable ==
    [p \in ParamSpace, r \in BOOLEAN, b \in ForwardBatches |-> Means(p, r, b)]
Forward(p, r, b) == MeanTable[p, r, b]

-----------------------------------------------------------------------------
(* Results *)

\* op and arg: the call; status: "ok" or the exception raised; val / den: the
\* value returned (den is 1 except for an average)
Ret(op, status, arg, val, den) ==
    [op |-> op, status |-> status, arg |-> arg, val |-> val, den |-> den]

Outcome(status, val) == [status |-> status, val |-> val]

-----------------------------------------------------------------------------
(* lasso_loss *)

LassoLossDefaulting(inp, re, im, guess, restrict) ==
    IF inp = Absent
    THEN Outcome("ok", Arr(<<Pad2(guess.shape)[1]>>, [i \in 1..Pad2(guess.shape)[1] |-> 0]))
    ELSE IF ~CanBroadcast(inp.shape, guess.shape) THEN Outcome("ValueError", NoneVal)
    ELSE Outcome("ok", NpScale(LossOne, NormL1Axis1(NpSub(inp, guess))))

LassoLoss(inp, re, im, guess, restrict) ==
    IF inp = Absent THEN Outcome("AttributeError", NoneVal)
    ELSE IF ~CanBroadcast(inp.shape, guess.shape) THEN Outcome("ValueError", NoneVal)
    ELSE LET l1 == NormL1Axis1(NpSub(inp, guess))
             base == NpScale(LossOne, l1)
         IN IF restrict THEN Outcome("ok", base)
            ELSE IF re = Absent \/ im = Absent THEN Outcome("AttributeError", NoneVal)
            ELSE IF ~CanBroadcast(re.shape, im.shape) THEN Outcome("ValueError", NoneVal)
            ELSE LET power == NpScale(LambdaNum, NpAdd(NpSquare(re), NpSquare(im)))
                 IN IF CanBroadcast(base.shape, power.shape)
                    THEN Outcome("ok", NpAdd(base, power))
                    ELSE Outcome("ValueError", NoneVal)

\* the run of update_op in policy_update, up to the step itself
FeedUpdate(inp, re, im, adv) ==
    IF inp = Absent \/ re = Absent \/ im = Absent THEN "AttributeError"
    ELSE IF ~(/\ FeedOK(PhInput, inp)
              /\ FeedOK(PhActions, re)
              /\ FeedOK(PhActions, im)
              /\ FeedOK(PhAdv, adv)) THEN "ValueError"
    ELSE LET mean == Squeeze(Arr(<<inp.shape[1], 1>>, <<>>)).shape
             lre == ResultShape(mean, re.shape)
             lim == ResultShape(mean, im.shape)
         IN IF ~(/\ CanBroadcast(mean, re.shape)
                 /\ CanBroadcast(mean, im.shape)
                 /\ CanBroadcast(lre, lim)
                 /\ CanBroadcast(adv.shape, ResultShape(lre, lim)))
            THEN "InvalidArgumentError"
            ELSE "ok"

-----------------------------------------------------------------------------
(* The methods, one call each *)

SaveCacheAlways(save, old, new) == new
SaveCache(save, old, new) == IF save THEN new ELSE old

Transmit(signal_b, save, nre, nim) ==
    /\ IF ~FeedOK(PhInput, signal_b)
       THEN /\ ret' = Ret("transmit", "ValueError", signal_b, NoneVal, 1)
            /\ UNCHANGED <<input_accum, actions_re_accum, actions_im_accum, saved>>
       ELSE LET m == Forward(params, restrict_energy, signal_b)
                re == Sample(m.re, nre)
                im == Sample(m.im, nim)
                signal_m == StackT(Squeeze(re), Squeeze(im))
            IN /\ input_accum' = SaveCache(save, input_accum, signal_b)
               /\ actions_re_accum' = SaveCache(save, actions_re_accum, Squeeze(re))
               /\ actions_im_accum' = SaveCache(save, actions_im_accum, Squeeze(im))
               /\ ret' = Ret("transmit", "ok", signal_b, signal_m, 1)
               /\ saved' = IF save
                           THEN [signal_b |-> signal_b, signal_m |-> signal_m]
                           ELSE saved
    /\ UNCHANGED <<restrict_energy, params, opt_steps, thr>>

LassoLossCall(guess) ==
    /\ LET l == LassoLoss(input_accum, actions_re_accum, actions_im_accum,
                          guess, restrict_energy)
       IN ret' = Ret("lasso_loss", l.status, guess, l.val, 1)
    /\ UNCHANGED <<restrict_energy, params, opt_steps, input_accum,
                   actions_re_accum, actions_im_accum, saved, thr>>

PolicyUpdate(guess, stepsize, p2) ==
    /\ opt_steps < MaxUpdates
    /\ LET l == LassoLoss(input_accum, actions_re_accum, actions_im_accum,
                          guess, restrict_energy)
           adv == NpNeg(l.val)
           fed == FeedUpdate(input_accum, actions_re_accum, actions_im_accum, adv)
       IN IF l.status # "ok"
          THEN /\ ret' = Ret("policy_update", l.status, guess, NoneVal, 1)
               /\ UNCHANGED <<params, opt_steps>>
          ELSE IF fed # "ok"
          THEN /\ ret' = Ret("policy_update", fed, guess, NoneVal, 1)
               /\ UNCHANGED <<params, opt_steps>>
          ELSE /\ params' = GradStep(params, stepsize, p2)
               /\ opt_steps' = AdamStep(opt_steps)
               /\ ret' = Ret("policy_update", "ok", guess,
                             Arr(<<>>, <<SumSeq(adv.data)>>), Len(adv.data))
    /\ UNCHANGED <<restrict_energy, input_accum, actions_re_accum,
                   actions_im_accum, saved, thr>>

\* the methods the class defines
Methods == {"policy_update", "transmit", "visualize", "save_ber", "save_energy",
            "lasso_loss", "get_stats"}

\* visualize: two transmit calls with save=False, then the plot; p_args is
\* indexed only after both
Visualize(has_p_args, scatter_data, n1, n2) ==
    /\ LET bitstrings == Window(0, Pow2(NBits))
           m1 == Forward(params, restrict_energy, scatter_data)
           m2 == Forward(params, restrict_energy, bitstrings)
           in1 == SaveCache(FALSE, input_accum, scatter_data)
           re1 == SaveCache(FALSE, actions_re_accum, Squeeze(Sample(m1.re, n1.re)))
           im1 == SaveCache(FALSE, actions_im_accum, Squeeze(Sample(m1.im, n1.im)))
       IN /\ input_accum' = SaveCache(FALSE, in1, bitstrings)
          /\ actions_re_accum' = SaveCache(FALSE, re1, Squeeze(Sample(m2.re, n2.re)))
          /\ actions_im_accum' = SaveCache(FALSE, im1, Squeeze(Sample(m2.im, n2.im)))
    /\ ret' = Ret("visualize", IF has_p_args THEN "ok" ELSE "TypeError", NoneVal, NoneVal, 1)
    /\ UNCHANGED <<restrict_energy, params, opt_steps, saved, thr>>

\* save_ber: the value appended to the log is ret.val / ret.den
SaveBer(guess) ==
    /\ ret' =
         IF input_accum = Absent
         THEN Ret("save_ber", "AttributeError", guess, NoneVal, 1)
         ELSE IF ~CanBroadcast(input_accum.shape, guess.shape)
         THEN Ret("save_ber", "ValueError", guess, NoneVal, 1)
         ELSE IF Rank(guess) < 2
         THEN Ret("save_ber", "IndexError", guess, NoneVal, 1)
         ELSE Ret("save_ber", "ok", guess,
                  Arr(<<>>, <<SumSeq(NormL1Axis1(NpSub(input_accum, guess)).data)>>),
                  2 * guess.shape[1] * guess.shape[2])
    /\ UNCHANGED <<restrict_energy, params, opt_steps, input_accum,
                   actions_re_accum, actions_im_accum, saved, thr>>

\* save_energy: the value appended to the log is ret.val / ret.den
SaveEnergy(signal) ==
    /\ ret' =
         IF Rank(signal) < 2
         THEN Ret("save_energy", "AxisError", signal, NoneVal, 1)
         ELSE Ret("save_energy", "ok", signal,
                  Arr(<<>>, <<SumSeq(NpSquare(signal).data)>>), signal.shape[1])
    /\ UNCHANGED <<restrict_energy, params, opt_steps, input_accum,
                   actions_re_accum, actions_im_accum, saved, thr>>

\* get_stats: the loop calls self.evaluate on the first bitstring
GetStats ==
    /\ ret' =
         IF Pow2(NBits) > 0 /\ "evaluate" \notin Methods
         THEN Ret("get_stats", "AttributeError", NoneVal, NoneVal, 1)
         ELSE Ret("get_stats", "ok", NoneVal, Arr(<<0, 2>>, <<>>), 1)
    /\ UNCHANGED <<restrict_energy, params, opt_steps, input_accum,
                   actions_re_accum, actions_im_accum, saved, thr>>

-----------------------------------------------------------------------------
(* The object after construction, and the single-caller specification *)

NoCall == [signal_b |-> Absent, signal_m |-> Absent]
\* the callers of the unsynchronised scenario, both idle: upc and tpc are the
\* positions of the updating and of the transmitting caller, adv, u_* and t_*
\* their local values (u_*: the cache fields as the updating caller read
\* them); tags, src, adv_src, fed_adv_src, fed_src and the overlap flags are
\* history (which transmit call wrote each cache field, which calls the
\* reads of the pending update, its advantage and the last gradient step drew
\* on, and whether a transmit was writing the cache while an update was
\* pending)
ThrIdle ==
    [upc |-> "idle", tpc |-> "idle",
     guess |-> NoneVal, adv |-> NoneVal, adv_src |-> {}, overlap |-> FALSE,
     u_in |-> Absent, u_re |-> Absent, u_im |-> Absent, src |-> {},
     u_status |-> "ok", fed_adv_src |-> {},
     t_in |-> NoneVal, t_re |-> NoneVal, t_im |-> NoneVal, t_id |-> 0, n_tx |-> 0,
     tags |-> [in |-> 0, re |-> 0, im |-> 0],
     fed_src |-> {}, fed_overlap |-> FALSE]

Signals == { Arr(<<2, 2>>, <<FixedOne, 0, 0, NoiseStep>>), Arr(<<2>>, <<FixedOne, 0>>) }

Init ==
    /\ restrict_energy \in BOOLEAN
    /\ params \in InitParams
    /\ opt_steps = 0
    /\ input_accum = Absent
    /\ actions_re_accum = Absent
    /\ actions_im_accum = Absent
    /\ ret = Ret("init", "ok", NoneVal, NoneVal, 1)
    /\ saved = NoCall
    /\ thr = ThrIdle

DoTransmit ==
    \E signal_b \in TransmitInputs, save \in BOOLEAN :
        \E n \in Noises(BatchLen(signal_b)) :
            Transmit(signal_b, save, n.re, n.im)

DoLassoLoss == \E guess \in Guesses : LassoLossCall(guess)

DoPolicyUpdate ==
    \E guess \in Guesses, stepsize \in StepSizes :
        \E p2 \in IF stepsize = 0 THEN {params} ELSE ParamSpace :
            PolicyUpdate(guess, stepsize, p2)

DoVisualize ==
    \E has_p_args \in BOOLEAN :
        \E n1 \in Noises(MaxBatch), n2 \in Noises(Pow2(NBits)) :
            Visualize(has_p_args, Window(1, MaxBatch), n1, n2)

DoSaveBer == \E guess \in {Window(1, MaxBatch), Window(0, 1), Unbatched(1)} : SaveBer(guess)

DoSaveEnergy == \E signal \in Signals : SaveEnergy(signal)

Next ==
    \/ DoTransmit
    \/ DoLassoLoss
    \/ DoPolicyUpdate
    \/ DoVisualize
    \/ DoSaveBer
    \/ DoSaveEnergy
    \/ GetStats

Spec == Init /\ [][Next]_vars

-----------------------------------------------------------------------------
(* Properties of the single-caller specification *)

Called(op) == ret.op = op
Returned(op) == ret.op = op /\ ret.status = "ok"
Aligned == input_accum # Absent /\ ret.arg.shape = input_accum.shape

\* column c of the (B, 2) array transmit returns, or of its (2,) form
Column(m, c) ==
    IF Rank(m) = 1 THEN <<m.data[c]>>
    ELSE [i \in 1..m.shape[1] |-> m.data[(i - 1) * m.shape[2] + c]]

Hamming(a, b) == Cardinality({j \in 1..Len(a) : a[j] # b[j]})

\* squared amplitude bound 1 + epsilon, in squared fixed-point units
Eps == 4 * FixedOne
Bounded(re, im) == Square(re) + Square(im) <= Square(FixedOne) + Eps

\* C1: the trajectory cache is absent until a transmit with save=true has
\* happened, and from then on holds the input batch and the sampled real and
\* imaginary parts of the most recent such call, whatever was called since.
CacheIsLastSaved ==
    IF saved = NoCall
    THEN input_accum = Absent /\ actions_re_accum = Absent /\ actions_im_accum = Absent
    ELSE /\ input_accum = saved.signal_b
         /\ actions_re_accum.data = Column(saved.signal_m, 1)
         /\ actions_im_accum.data = Column(saved.signal_m, 2)

CacheSurvivesWitness ==
    /\ saved # NoCall
    /\ Returned("transmit")
    /\ ret.arg # saved.signal_b
    /\ input_accum = saved.signal_b

\* C2 as stated: a policy_update whose guess has another batch length than
\* the cached trajectory (or is a single un-batched vector) ends in an error.
MismatchedGuessFails ==
    (/\ Called("policy_update")
     /\ input_accum # Absent
     /\ (Rank(ret.arg) # 2 \/ BatchLen(ret.arg) # BatchLen(input_accum)))
    => ret.status # "ok"

\* C3: while no transmit with save=true has happened, policy_update and
\* lasso_loss end in an error and change neither the parameters nor the
\* (absent) cache.
NoTrajectoryFails ==
    [][(saved = NoCall /\ ret'.op \in {"policy_update", "lasso_loss"})
        => /\ ret'.status = "AttributeError"
           /\ params' = params /\ opt_steps' = opt_steps
           /\ input_accum' = Absent /\ actions_re_accum' = Absent
           /\ actions_im_accum' = Absent]_vars

NoTrajectoryWitness ==
    /\ saved = NoCall
    /\ Called("policy_update")
    /\ ret.status = "AttributeError"
    /\ opt_steps = 0

\* C4 as stated: with restrict_energy, lasso_loss returns the Hamming distance
\* of each cached input and its guess.
LossIsHamming ==
    (restrict_energy /\ Returned("lasso_loss") /\ Aligned)
    => \A i \in 1..BatchLen(input_accum) :
           ret.val.data[i] = Hamming(Row(input_accum, i), Row(ret.arg, i)) * LossOne

\* C4 amended: with restrict_energy, lasso_loss returns for each sample the L1
\* distance of the cached input and its guess, which is twice their Hamming
\* distance.
LossIsTwiceHamming ==
    (restrict_energy /\ Returned("lasso_loss") /\ Aligned)
    => \A i \in 1..BatchLen(input_accum) :
           ret.val.data[i] = 2 * Hamming(Row(input_accum, i), Row(ret.arg, i)) * LossOne

LossHammingWitness ==
    /\ restrict_energy /\ Returned("lasso_loss") /\ Aligned
    /\ \E i \in 1..BatchLen(input_accum) :
           Hamming(Row(input_accum, i), Row(ret.arg, i)) = 2
    /\ \E i \in 1..BatchLen(input_accum) :
           Hamming(Row(input_accum, i), Row(ret.arg, i)) = 1

\* C5: every loss lasso_loss returns is >= 0, and is 0 exactly when the guess
\* equals the cached input and, without restrict_energy, the cached sample has
\* re^2 + im^2 = 0; the value policy_update returns is never positive.
LossNonNegative ==
    /\ (Returned("lasso_loss") /\ Aligned)
       => \A i \in 1..BatchLen(input_accum) :
              /\ ret.val.data[i] >= 0
              /\ ret.val.data[i] = 0 <=>
                    /\ Row(input_accum, i) = Row(ret.arg, i)
                    /\ (restrict_energy \/
                          Square(actions_re_accum.data[i])
                            + Square(actions_im_accum.data[i]) = 0)
    /\ Returned("policy_update") => (ret.den > 0 /\ ret.val.data[1] <= 0)

LossZeroWitness ==
    /\ ~restrict_energy /\ Returned("lasso_loss") /\ Aligned
    /\ \E i \in 1..BatchLen(input_accum) : ret.val.data[i] = 0
    /\ \E i \in 1..BatchLen(input_accum) :
           ret.val.data[i] > 0 /\ Row(input_accum, i) = Row(ret.arg, i)

\* C6 as stated: with restrict_energy, every symbol transmit returns has
\* squared amplitude at most 1 + epsilon.
SymbolsBounded ==
    (restrict_energy /\ Returned("transmit"))
    => \A i \in 1..BatchLen(ret.arg) :
           Bounded(Column(ret.val, 1)[i], Column(ret.val, 2)[i])

\* C6 amended: with restrict_energy, the means of the two sampling
\* distributions have squared amplitude at most 1 + epsilon for every batch
\* and every parameter value; the symbols transmit returns are draws around
\* these means and are not bounded.
MeansBounded ==
    (restrict_energy /\ Returned("transmit"))
    => LET m == Means(params, restrict_energy, ret.arg)
       IN \A i \in 1..BatchLen(ret.arg) : Bounded(m.re.data[i], m.im.data[i])

MeansBoundedWitness ==
    /\ restrict_energy /\ Returned("transmit")
    /\ LET raw == Means(params, FALSE, ret.arg)
       IN MaxAmplitude(raw.re, raw.im) > FixedOne
    /\ \E i \in 1..BatchLen(ret.arg) :
           ~Bounded(Column(ret.val, 1)[i], Column(ret.val, 2)[i])

\* C7 as stated: get_stats returns normally with one centroid for each of the
\* 2^n_bits labels.
GetStatsReturns ==
    Called("get_stats") => (ret.status = "ok" /\ ret.val.shape = <<Pow2(NBits), 2>>)

\* C8: the parameters and the optimizer state change only in a policy_update
\* that returns normally, which applies exactly one optimizer step; a
\* policy_update that ends in an error and every other call leave them alone.
ParamsOnlyByUpdate ==
    [][/\ (ret'.op # "policy_update" \/ ret'.status # "ok")
            => (params' = params /\ opt_steps' = opt_steps)
       /\ (ret'.op = "policy_update" /\ ret'.status = "ok" /\ vars' # vars)
            => opt_steps' = opt_steps + 1]_vars

ParamsUpdatedWitness ==
    /\ Returned("policy_update")
    /\ opt_steps = MaxUpdates
    /\ params \notin InitParams

\* C10 as stated: for every batch size B >= 1 transmit returns an array of
\* shape (B, 2), and the cache it saves is accepted by a following
\* policy_update with a guess of shape (B, n_bits).
TransmitShape ==
    /\ Returned("transmit") => ret.val.shape = <<BatchLen(ret.arg), 2>>
    /\ (Called("policy_update") /\ Aligned) => ret.status = "ok"

-----------------------------------------------------------------------------
(* Two callers without synchronisation: one in transmit(save=True), one in   *)
(* policy_update.  transmit assigns the three cache fields one after another; *)
(* policy_update reads the cache in lasso_loss and again for the feed.        *)

Reading(pc) == pc \notin {"idle", "ran", "raising"}
MidWrite(pc) == pc \in {"wrote_input", "wrote_re"}

\* transmit, line 188: the draw
TxSample(signal_b, n) ==
    /\ thr.tpc = "idle"
    /\ thr.n_tx < MaxTransmits
    /\ FeedOK(PhInput, signal_b)
    /\ LET m == Forward(params, restrict_energy, signal_b)
       IN thr' = [thr EXCEPT !.tpc = "sampled",
                             !.t_in = signal_b,
                             !.t_re = Sample(m.re, n.re),
                             !.t_im = Sample(m.im, n.im),
                             !.t_id = thr.n_tx + 1,
                             !.n_tx = thr.n_tx + 1]
    /\ UNCHANGED <<restrict_energy, params, opt_steps, input_accum,
                   actions_re_accum, actions_im_accum, ret, saved>>

\* transmit, line 194
TxWriteInput ==
    /\ thr.tpc = "sampled"
    /\ input_accum' = SaveCache(TRUE, input_accum, thr.t_in)
    /\ thr' = [thr EXCEPT !.tpc = "wrote_input",
                          !.tags.in = thr.t_id,
                          !.overlap = thr.overlap \/ Reading(thr.upc)]
    /\ UNCHANGED <<restrict_energy, params, opt_steps, actions_re_accum,
                   actions_im_accum, ret, saved>>

\* transmit, line 195
TxWriteRe ==
    /\ thr.tpc = "wrote_input"
    /\ actions_re_accum' = SaveCache(TRUE, actions_re_accum, Squeeze(thr.t_re))
    /\ thr' = [thr EXCEPT !.tpc = "wrote_re",
                          !.tags.re = thr.t_id,
                          !.overlap = thr.overlap \/ Reading(thr.upc)]
    /\ UNCHANGED <<restrict_energy, params, opt_steps, input_accum,
                   actions_im_accum, ret, saved>>

TxWriteImOnce ==
    /\ thr.tpc = "wrote_re"
    /\ actions_im_accum' = IF actions_im_accum = Absent
                           THEN Squeeze(thr.t_im) ELSE actions_im_accum
    /\ thr' = [thr EXCEPT !.tpc = "wrote_im",
                          !.tags.im = IF actions_im_accum = Absent
                                      THEN thr.t_id ELSE thr.tags.im,
                          !.overlap = thr.overlap \/ Reading(thr.upc)]
    /\ UNCHANGED <<restrict_energy, params, opt_steps, input_accum,
                   actions_re_accum, ret, saved>>

\* transmit, line 196
TxWriteIm ==
    /\ thr.tpc = "wrote_re"
    /\ actions_im_accum' = SaveCache(TRUE, actions_im_accum, Squeeze(thr.t_im))
    /\ thr' = [thr EXCEPT !.tpc = "wrote_im",
                          !.tags.im = thr.t_id,
                          !.overlap = thr.overlap \/ Reading(thr.upc)]
    /\ UNCHANGED <<restrict_energy, params, opt_steps, input_accum,
                   actions_re_accum, ret, saved>>

\* transmit, lines 198 and 199: the result from the caller's own draw
TxReturn ==
    /\ thr.tpc = "wrote_im"
    /\ ret' = Ret("transmit", "ok", thr.t_in,
                  StackT(Squeeze(thr.t_re), Squeeze(thr.t_im)), 1)
    /\ saved' = [signal_b |-> thr.t_in,
                 signal_m |-> StackT(Squeeze(thr.t_re), Squeeze(thr.t_im))]
    /\ thr' = [thr EXCEPT !.tpc = "idle",
                          !.t_in = NoneVal, !.t_re = NoneVal, !.t_im = NoneVal,
                          !.t_id = 0]
    /\ UNCHANGED <<restrict_energy, params, opt_steps, input_accum,
                   actions_re_accum, actions_im_accum>>

\* an exception is raised in the updating caller; it reaches the caller of
\* policy_update in a step of its own
UpdRaise(guess, status) ==
    /\ ret' = ret
    /\ thr' = [thr EXCEPT !.upc = "raising", !.guess = guess, !.adv = NoneVal,
                          !.u_in = Absent, !.u_re = Absent, !.u_im = Absent,
                          !.u_status = status,
                          !.adv_src = {}, !.src = {}, !.overlap = FALSE]

\* the exception leaves policy_update
UpdExcept ==
    /\ thr.upc = "raising"
    /\ ret' = Ret("policy_update", thr.u_status, thr.guess, NoneVal, 1)
    /\ thr' = [thr EXCEPT !.upc = "idle", !.guess = NoneVal, !.u_status = "ok"]
    /\ UNCHANGED <<restrict_energy, params, opt_steps, input_accum,
                   actions_re_accum, actions_im_accum, saved>>

\* policy_update, line 151, lasso_loss up to the norm of line 327 or 331: the
\* one read of input_accum
UpdLossInput(guess) ==
    /\ thr.upc = "idle"
    /\ opt_steps < MaxUpdates
    /\ LET l == LassoLoss(input_accum, Absent, Absent, guess, TRUE)
       IN IF l.status # "ok"
          THEN UpdRaise(guess, l.status)
          ELSE /\ ret' = ret
               /\ thr' = [thr EXCEPT
                            !.upc = IF restrict_energy THEN "loss_done" ELSE "l_in",
                            !.guess = guess,
                            !.adv = IF restrict_energy THEN NpNeg(l.val) ELSE NoneVal,
                            !.u_in = IF restrict_energy THEN Absent ELSE input_accum,
                            !.adv_src = {thr.tags.in},
                            !.src = {thr.tags.in},
                            !.overlap = MidWrite(thr.tpc)]
    /\ UNCHANGED <<restrict_energy, params, opt_steps, input_accum,
                   actions_re_accum, actions_im_accum, saved>>

\* lasso_loss, line 332: the read of actions_re_accum
UpdLossRe ==
    /\ thr.upc = "l_in"
    /\ IF actions_re_accum = Absent
       THEN UpdRaise(thr.guess, "AttributeError")
       ELSE /\ ret' = ret
            /\ thr' = [thr EXCEPT !.upc = "l_re",
                                  !.u_re = actions_re_accum,
                                  !.adv_src = thr.adv_src \cup {thr.tags.re},
                                  !.src = thr.src \cup {thr.tags.re}]
    /\ UNCHANGED <<restrict_energy, params, opt_steps, input_accum,
                   actions_re_accum, actions_im_accum, saved>>

\* lasso_loss, line 332: the read of actions_im_accum, the sum, and the
\* negation of line 151
UpdLossIm ==
    /\ thr.upc = "l_re"
    /\ LET l == LassoLoss(thr.u_in, thr.u_re, actions_im_accum, thr.guess, FALSE)
       IN IF l.status # "ok"
          THEN UpdRaise(thr.guess, l.status)
          ELSE /\ ret' = ret
               /\ thr' = [thr EXCEPT !.upc = "loss_done",
                                     !.adv = NpNeg(l.val),
                                     !.u_in = Absent,
                                     !.u_re = Absent,
                                     !.adv_src = thr.adv_src \cup {thr.tags.im},
                                     !.src = thr.src \cup {thr.tags.im}]
    /\ UNCHANGED <<restrict_energy, params, opt_steps, input_accum,
                   actions_re_accum, actions_im_accum, saved>>

\* policy_update, line 154: the feed's read of input_accum
UpdFeedInput ==
    /\ thr.upc = "loss_done"
    /\ IF input_accum = Absent
       THEN UpdRaise(thr.guess, "AttributeError")
       ELSE /\ ret' = ret
            /\ thr' = [thr EXCEPT !.upc = "f_in",
                                  !.u_in = input_accum,
                                  !.src = thr.src \cup {thr.tags.in}]
    /\ UNCHANGED <<restrict_energy, params, opt_steps, input_accum,
                   actions_re_accum, actions_im_accum, saved>>

\* policy_update, line 155: the feed's read of actions_re_accum
UpdFeedRe ==
    /\ thr.upc = "f_in"
    /\ IF actions_re_accum = Absent
       THEN UpdRaise(thr.guess, "AttributeError")
       ELSE /\ ret' = ret
            /\ thr' = [thr EXCEPT !.upc = "f_re",
                                  !.u_re = actions_re_accum,
                                  !.src = thr.src \cup {thr.tags.re}]
    /\ UNCHANGED <<restrict_energy, params, opt_steps, input_accum,
                   actions_re_accum, actions_im_accum, saved>>

\* policy_update, line 156: the feed's read of actions_im_accum
UpdFeedIm ==
    /\ thr.upc = "f_re"
    /\ IF actions_im_accum = Absent
       THEN UpdRaise(thr.guess, "AttributeError")
       ELSE /\ ret' = ret
            /\ thr' = [thr EXCEPT !.upc = "f_im",
                                  !.u_im = actions_im_accum,
                                  !.src = thr.src \cup {thr.tags.im}]
    /\ UNCHANGED <<restrict_energy, params, opt_steps, input_accum,
                   actions_re_accum, actions_im_accum, saved>>

\* policy_update, line 159: the second read of input_accum, for its length;
\* no operation of the graph takes the batch_size placeholder
UpdFeedBatch ==
    /\ thr.upc = "f_im"
    /\ IF input_accum = Absent
       THEN UpdRaise(thr.guess, "AttributeError")
       ELSE /\ ret' = ret
            /\ thr' = [thr EXCEPT !.upc = "f_bs",
                                  !.src = thr.src \cup {thr.tags.in}]
    /\ UNCHANGED <<restrict_energy, params, opt_steps, input_accum,
                   actions_re_accum, actions_im_accum, saved>>

\* policy_update, line 153: the run of update_op on the values read
UpdRun(stepsize, p2) ==
    /\ thr.upc = "f_bs"
    /\ LET fed == FeedUpdate(thr.u_in, thr.u_re, thr.u_im, thr.adv)
       IN IF fed # "ok"
          THEN /\ UpdRaise(thr.guess, fed)
               /\ UNCHANGED <<params, opt_steps>>
          ELSE /\ params' = GradStep(params, stepsize, p2)
               /\ opt_steps' = AdamStep(opt_steps)
               /\ ret' = ret
               /\ thr' = [thr EXCEPT
                            !.upc = "ran",
                            !.u_in = Absent, !.u_re = Absent, !.u_im = Absent,
                            !.adv_src = {}, !.src = {}, !.overlap = FALSE,
                            !.fed_adv_src = thr.adv_src,
                            !.fed_src = thr.src,
                            !.fed_overlap = thr.overlap]
    /\ UNCHANGED <<restrict_energy, input_accum, actions_re_accum,
                   actions_im_accum, saved>>

\* policy_update, line 162: the average of the caller's own advantage
UpdReturn ==
    /\ thr.upc = "ran"
    /\ ret' = Ret("policy_update", "ok", thr.guess,
                  Arr(<<>>, <<SumSeq(thr.adv.data)>>), Len(thr.adv.data))
    /\ thr' = [thr EXCEPT !.upc = "idle", !.guess = NoneVal, !.adv = NoneVal]
    /\ UNCHANGED <<restrict_energy, params, opt_steps, input_accum,
                   actions_re_accum, actions_im_accum, saved>>

\* the transmitting caller sends full batches, and every draw deviates from
\* the mean; the updating caller receives one decoded batch
RaceBatches == { Window(o, MaxBatch) : o \in Offsets }
RaceNoises(B) == { n \in Noises(B) : n.re[1] # 0 }
RaceGuess == Window(0, MaxBatch)

DoTxSample ==
    \E signal_b \in RaceBatches : \E n \in RaceNoises(BatchLen(signal_b)) :
        TxSample(signal_b, n)

DoUpdLossInput == UpdLossInput(RaceGuess)

DoUpdRun ==
    \E stepsize \in StepSizes :
        \E p2 \in IF stepsize = 0 THEN {params} ELSE ParamSpace :
            UpdRun(stepsize, p2)

NextRace ==
    \/ DoTxSample
    \/ TxWriteInput
    \/ TxWriteRe
    \/ TxWriteIm
    \/ TxReturn
    \/ DoUpdLossInput
    \/ UpdLossRe
    \/ UpdLossIm
    \/ UpdFeedInput
    \/ UpdFeedRe
    \/ UpdFeedIm
    \/ UpdFeedBatch
    \/ DoUpdRun
    \/ UpdReturn
    \/ UpdExcept

SpecRace == Init /\ [][NextRace]_vars

\* C9: a gradient step combines advantages and inputs/actions of different
\* trajectories only if a transmit was under way while the update was pending;
\* when transmit and policy_update strictly alternate, every gradient step
\* draws on one trajectory.  With the two interleaved, a step that combines
\* two trajectories is reachable.
MixedNeedsOverlap ==
    Cardinality(thr.fed_src) > 1 => thr.fed_overlap

MixedFeedWitness ==
    /\ Returned("policy_update")
    /\ Cardinality(thr.fed_adv_src) = 1
    /\ Cardinality(thr.fed_src) > 1
    /\ thr.fed_overlap

====
